---- MODULE Spec2Model ----
(***************************************************************************)
(* State-machine model of src/src/App.tsx: the PriorityQueue class (a      *)
(* binary heap over an array) and the two searches breadthFirstSearch and  *)
(* uniformCostSearch over a node/edge graph.                               *)
(*                                                                         *)
(* JavaScript arrays are 0-based, TLA+ sequences 1-based: every index in   *)
(* this module is the JavaScript index, and heapAt/swap translate.         *)
(***************************************************************************)
EXTENDS Integers, Sequences, FiniteSets, Bags, TLC

VARIABLES
    \* ---- a PriorityQueue instance driven directly by a caller
    heap,        \* PriorityQueue._heap
    added,       \* bag of the priorities passed to add so far
    popped,      \* the values returned by pop so far, in call order
    lastOp,      \* the last call on the queue and what it returned
    \* ---- the graph handed to the searches
    nodes,       \* the ids of the graph's Node objects
    cost,        \* Node.cost, by id
    neighbors,   \* Node.neighbors, by id: a sequence of Edge records
    startNode,   \* id of the startNode argument
    endNode,     \* id of the endNode argument
    \* ---- the caller and the loop position of the search that is running
    todo,        \* the calls the caller has still to make, in order
    pc,          \* "call": the caller is between calls; else the place in the search
    currNode,    \* the node taken from the frontier
    edgeIdx,     \* position of the forEach over currNode.neighbors (0-based)
    \* ---- the locals of uniformCostSearch
    ucsFrontier, \* frontier: the _heap of its PriorityQueue<Node>
    ucsCameFrom, \* cameFrom: a NodeAndCost (or undefined) by node id
    costToNode,  \* cameFrom[currNode.id].cost read at the pop
    ucsCurrent,  \* current: the NodeAndCost the walk is at
    ucsPath,     \* path: the PathWithCost the walk builds
    \* ---- the locals of breadthFirstSearch
    bfsFrontier, \* frontier: Array<Node>
    bfsCameFrom, \* cameFrom: a Node, null or undefined by node id
    bfsCurrent,  \* current: the Node the walk is at
    bfsPath,     \* path: the Path the walk builds
    \* ---- what the caller holds of the calls it made
    ucsResult,   \* what the last call of uniformCostSearch returned
    bfsResult,   \* what the last call of breadthFirstSearch returned
    ucsPrevious, \* what the call of uniformCostSearch before that one returned
    bfsPrevious  \* what the call of breadthFirstSearch before that one returned

queueVars == <<heap, added, popped, lastOp>>
graphVars == <<nodes, cost, neighbors, startNode, endNode>>
loopVars == <<currNode, edgeIdx>>
ucsVars == <<ucsFrontier, ucsCameFrom, costToNode, ucsCurrent, ucsPath>>
bfsVars == <<bfsFrontier, bfsCameFrom, bfsCurrent, bfsPath>>
resultVars == <<ucsResult, bfsResult, ucsPrevious, bfsPrevious>>
searchVars == <<graphVars, todo, pc, loopVars, ucsVars, bfsVars, resultVars>>
vars == <<queueVars, searchVars>>

\* ---------------------------------------------------------------- bounds
\* priorities the caller draws from when it mixes add, pop and peek
MaxPriority == 3
\* calls of add and pop in one run of the mixed caller
MaxOps == 8
\* distinct priorities (and so entries) of the caller that fills, then drains
MaxDrain == 10

\* ------------------------------------------------------ JavaScript values
\* undefined, where a T or a number is expected
undefined == -1
\* null (breadthFirstSearch's cameFrom entry of startNode)
null == -2
\* undefined, where a QueueItem is expected
undefinedItem == [item |-> undefined, weight |-> undefined]
\* undefined, where a NodeAndCost is expected
undefinedEntry == [node |-> undefined, cost |-> undefined]

NodeAndCost(n, c) == [node |-> n, cost |-> c]

\* -------------------------------------------------------- PriorityQueue
QueueItem(element, priority) == [item |-> element, weight |-> priority]

\* this._heap[i]: a read outside the array yields undefined
heapAt(h, i) == IF i >= 0 /\ i < Len(h) THEN h[i + 1] ELSE undefinedItem

size(h) == Len(h)

isEmpty(h) == size(h) = 0

peek(h) == heapAt(h, 0)

leftIndex(i) == 2 * i + 1

rightIndex(i) == 2 * i + 2

getChildren(h, i) == <<heapAt(h, leftIndex(i)), heapAt(h, rightIndex(i))>>

isGreater(childA, childB) ==
    IF childA # undefinedItem /\ childB # undefinedItem
    THEN childA.weight > childB.weight
    ELSE childA # undefinedItem

\* a swap without the destructuring: indexA gets indexB's entry, and indexB
\* then gets its own entry back
swapOverwrites(h, indexA, indexB) == [h EXCEPT ![indexA + 1] = h[indexB + 1]]

\* both indexes are inside the array wherever add and pop call swap
swap(h, indexA, indexB) ==
    [h EXCEPT ![indexA + 1] = h[indexB + 1], ![indexB + 1] = h[indexA + 1]]

\* the parent by the formula of a heap kept from index 1: index 1 is its own
\* parent, and no entry climbs to index 0
parentOneBased(currIndex) == (currIndex + 1) \div 2

\* Math.floor(currIndex / 2), add's parent of currIndex
parentIndexOf(currIndex) == currIndex \div 2

\* the while loop of add
RECURSIVE addLoop(_, _, _)
addLoop(h, newItem, currIndex) ==
    LET parentIndex == parentIndexOf(currIndex)
        parentItem == heapAt(h, parentIndex)
    IN  IF isGreater(newItem, parentItem)
        THEN addLoop(swap(h, parentIndex, currIndex), newItem, parentIndex)
        ELSE h

\* add(element, priority): the array afterwards
add(h, element, priority) ==
    LET newItem == QueueItem(element, priority)
        pushed == Append(h, newItem)
    IN  addLoop(pushed, newItem, size(pushed) - 1)

\* the test of pop's while loop: a child weighs more than the item
siftsDown(children, item) == isGreater(children[1], item) \/ isGreater(children[2], item)

\* swapTo: the left child's index if it weighs more than the right, else the
\* right child's
swapToOf(children, itemIndex) ==
    IF isGreater(children[1], children[2])
    THEN leftIndex(itemIndex)
    ELSE rightIndex(itemIndex)

\* the while loop of pop
RECURSIVE popLoop(_, _, _)
popLoop(h, item, itemIndex) ==
    LET children == getChildren(h, itemIndex)
    IN  IF siftsDown(children, item)
        THEN LET swapTo == swapToOf(children, itemIndex)
             IN  popLoop(swap(h, swapTo, itemIndex), item, swapTo)
        ELSE h

\* result?.item
itemOf(result) == IF result = undefinedItem THEN undefined ELSE result.item

\* this._heap[i] = v: a write at the array's length extends the array
heapPut(h, i, v) == IF i = Len(h) THEN Append(h, v) ELSE [h EXCEPT ![i + 1] = v]

\* a pop that sifts even when the array is empty after taking its last entry
popNeverReturnsEarly(h) == FALSE

\* the early return of pop: the array is empty once its last entry is taken
popReturnsEarly(h) == size(h) = 0

\* pop(): the value returned and the array afterwards
pop(h) ==
    LET result == peek(h)
        item == IF Len(h) = 0 THEN undefinedItem ELSE h[Len(h)]
        shorter == IF Len(h) = 0 THEN h ELSE SubSeq(h, 1, Len(h) - 1)
    IN  IF popReturnsEarly(shorter)
        THEN [ret |-> itemOf(result), heap |-> shorter]
        ELSE [ret |-> itemOf(result),
              heap |-> popLoop(heapPut(shorter, 0, item), item, 0)]

\* ------------------------------------------- a caller of the PriorityQueue
\* the element the caller queues under priority p
ElementOf(p) == 10 * p

PriorityOf(e) == e \div 10

\* op: the method called; arg: add's priority, or the size pop and peek found;
\* ret: what pop returned; entry: what peek returned
NoOp == [op |-> "none", arg |-> undefined, ret |-> undefined, entry |-> undefinedItem]

SearchIdle ==
    /\ nodes = {}
    /\ cost = <<>>
    /\ neighbors = <<>>
    /\ startNode = undefined
    /\ endNode = undefined
    /\ todo = <<>>
    /\ pc = "call"
    /\ currNode = undefined
    /\ edgeIdx = 0
    /\ ucsFrontier = <<>>
    /\ ucsCameFrom = [n \in nodes |-> undefinedEntry]
    /\ costToNode = undefined
    /\ ucsCurrent = undefinedEntry
    /\ ucsPath = <<>>
    /\ bfsFrontier = <<>>
    /\ bfsCameFrom = [n \in nodes |-> undefined]
    /\ bfsCurrent = undefined
    /\ bfsPath = <<>>
    /\ ucsResult = <<>>
    /\ bfsResult = <<>>
    /\ ucsPrevious = <<>>
    /\ bfsPrevious = <<>>

QueueInit ==
    /\ heap = <<>>
    /\ added = EmptyBag
    /\ popped = <<>>
    /\ lastOp = NoOp
    /\ SearchIdle

Add(p) ==
    /\ heap' = add(heap, ElementOf(p), p)
    /\ added' = added (+) SetToBag({p})
    /\ lastOp' = [op |-> "add", arg |-> p, ret |-> undefined, entry |-> undefinedItem]
    /\ UNCHANGED <<popped, searchVars>>

Pop ==
    /\ heap' = pop(heap).heap
    /\ popped' = Append(popped, pop(heap).ret)
    /\ lastOp' = [op |-> "pop", arg |-> size(heap), ret |-> pop(heap).ret,
                  entry |-> undefinedItem]
    /\ UNCHANGED <<added, searchVars>>

Peek ==
    /\ lastOp' = [op |-> "peek", arg |-> size(heap), ret |-> undefined,
                  entry |-> peek(heap)]
    /\ UNCHANGED <<heap, added, popped, searchVars>>

OpsLeft == BagCardinality(added) + Len(popped) < MaxOps

\* any mix of add, pop and peek, empty queue included
QueueNext ==
    \/ OpsLeft /\ \E p \in 1..MaxPriority : Add(p)
    \/ OpsLeft /\ Pop
    \/ Peek

QueueSpec == QueueInit /\ [][QueueNext]_vars

\* n adds of pairwise distinct priorities, then pops until the queue is empty
DrainNext ==
    \/ popped = <<>> /\ \E p \in 1..MaxDrain : ~BagIn(p, added) /\ Add(p)
    \/ ~isEmpty(heap) /\ Pop

DrainSpec == QueueInit /\ [][DrainNext]_vars

\* ------------------------------------------------- claims on the queue
\* C1: after n adds of pairwise distinct priorities on an empty queue, the
\* successive pops return the items in strictly descending priority order.
C1_PopsDescending ==
    \A i \in 1..(Len(popped) - 1) :
        PriorityOf(popped[i]) > PriorityOf(popped[i + 1])

\* C2: heap invariant: the entry at every index i weighs at least as much
\* as each present child, the children of i being at 2i+1 and 2i+2.
C2_HeapInvariant ==
    \A i \in 0..(size(heap) - 1) :
        \A c \in {leftIndex(i), rightIndex(i)} :
            c < size(heap) => heapAt(heap, i).weight >= heapAt(heap, c).weight

\* C3: pop and peek on an empty queue return undefined and leave the queue
\* empty (size 0, isEmpty), and an add that follows holds exactly its entry.
C3_EmptyPopPeekAbsent ==
    [][ /\ (heap = <<>> /\ lastOp'.op \in {"pop", "peek"}) =>
              /\ lastOp'.ret = undefined
              /\ lastOp'.entry = undefinedItem
              /\ heap' = <<>>
              /\ size(heap') = 0
              /\ isEmpty(heap')
        /\ (lastOp.op \in {"pop", "peek"} /\ lastOp.arg = 0 /\ lastOp'.op = "add") =>
              /\ heap' = <<QueueItem(ElementOf(lastOp'.arg), lastOp'.arg)>>
              /\ itemOf(peek(heap')) = ElementOf(lastOp'.arg)
      ]_vars

\* an add has just followed a pop on the empty queue
C3_Witness ==
    /\ Len(popped) > 0
    /\ popped[Len(popped)] = undefined
    /\ lastOp.op = "add"
    /\ size(heap) = 1

\* how many entries of array h are the entry e
held(h, e) == Cardinality({i \in 1..Len(h) : h[i] = e})

\* how many of the calls of pop so far returned element e
returned(e) == Cardinality({i \in 1..Len(popped) : popped[i] = e})

\* the queue holds what was added and not yet popped: for every priority
\* added, as many entries as adds less pops of its element, and no entry
\* besides (the size is the adds less the pops that returned an item)
Conserved ==
    /\ \A p \in BagToSet(added) :
          held(heap, QueueItem(ElementOf(p), p)) = CopiesIn(p, added) - returned(ElementOf(p))
    /\ size(heap) = BagCardinality(added) - (Len(popped) - returned(undefined))

\* C19: the PriorityQueue conserves its items: after every add and pop the
\* entries held are those added less those popped from a non-empty queue,
\* size() is the adds less such pops, and a pop on a non-empty queue returns
\* the item of the entry peek would return and removes that one entry only.
C19_QueueConservesItems ==
    [][ /\ Conserved'
        /\ (popped' # popped /\ ~isEmpty(heap)) =>
              /\ popped'[Len(popped')] = itemOf(peek(heap))
              /\ size(heap') = size(heap) - 1
              /\ \A i \in 1..Len(heap) :
                    held(heap', heap[i]) =
                        held(heap, heap[i]) - (IF heap[i] = peek(heap) THEN 1 ELSE 0)
      ]_vars

\* items were popped from a queue that holds entries of equal priority, and
\* the last pop sifted through three entries at least
C19_Witness ==
    /\ lastOp.op = "pop"
    /\ lastOp.ret # undefined
    /\ returned(undefined) = 0
    /\ Len(popped) >= 2
    /\ size(heap) >= 3
    /\ \E i, j \in 1..Len(heap) : i # j /\ heap[i] = heap[j]

Max(S) == CHOOSE x \in S : \A y \in S : x >= y

\* C20: after one or more adds on an empty queue and no pop, peek returns an
\* entry whose weight is the greatest of the weights added.
C20_RootIsMaxAfterAdds ==
    (popped = <<>> /\ added # EmptyBag) =>
        /\ peek(heap) # undefinedItem
        /\ peek(heap).weight = Max(BagToSet(added))

\* the fourth add or a later one brought a priority above all those before
\* it, and its entry climbed to the root
C20_Witness ==
    /\ popped = <<>>
    /\ size(heap) >= 4
    /\ lastOp.op = "add"
    /\ lastOp.arg = Max(BagToSet(added))
    /\ CopiesIn(lastOp.arg, added) = 1
    /\ peek(heap) = QueueItem(ElementOf(lastOp.arg), lastOp.arg)

\* the turns of pop's while loop on array h with the item at itemIndex: the
\* array and the item's index at each turn whose test holds
RECURSIVE siftTurns(_, _, _)
siftTurns(h, item, itemIndex) ==
    LET children == getChildren(h, itemIndex)
    IN  IF siftsDown(children, item)
        THEN {<<h, itemIndex>>}
             \cup siftTurns(swap(h, swapToOf(children, itemIndex), itemIndex), item,
                            swapToOf(children, itemIndex))
        ELSE {}

\* C17: in a turn of pop's sift-down where the item has two present children
\* of equal weight and that weight exceeds the item's, the item is swapped
\* with the left child (index 2i+1): after the swap it sits at the left
\* child's index.
C17_TiesGoLeft ==
    [][ (popped' # popped /\ size(heap) >= 2) =>
          LET item == heap[Len(heap)]
              atRoot == heapPut(SubSeq(heap, 1, Len(heap) - 1), 0, item)
          IN  \A t \in siftTurns(atRoot, item, 0) :
                  LET children == getChildren(t[1], t[2])
                  IN  (/\ children[1] # undefinedItem
                       /\ children[2] # undefinedItem
                       /\ children[1].weight = children[2].weight
                       /\ children[1].weight > item.weight)
                      => heapAt(swap(t[1], swapToOf(children, t[2]), t[2]),
                                leftIndex(t[2])) = item
      ]_vars

\* ------------------------------------------------------------ the graph
\* an Edge as populateNeighbors' makeEdge builds it
makeEdge(to, from_node, fromCost) ==
    [from_node |-> from_node, to_node |-> to, cost |-> fromCost]

\* Node.id of the node makeGrid puts at grid[i][j]
gridId(i, j) == i * 20 + j * (20 * 20)

\* the neighbors populateNeighbors pushes for grid[i][j], in its order;
\* gridSize stands for GRID_SIZE
populateNeighbors(gridSize, i, j) ==
    LET from == gridId(i, j)
    IN  (IF j > 0 THEN <<makeEdge(gridId(i, j - 1), from, 1)>> ELSE <<>>)
        \o (IF i > 0 THEN <<makeEdge(gridId(i - 1, j), from, 1)>> ELSE <<>>)
        \o (IF i < gridSize - 1 THEN <<makeEdge(gridId(i + 1, j), from, 1)>> ELSE <<>>)
        \o (IF j < gridSize - 1 THEN <<makeEdge(gridId(i, j + 1), from, 1)>> ELSE <<>>)

gridCells(gridSize) == (0..(gridSize - 1)) \X (0..(gridSize - 1))

\* makeGrid(): a gridSize x gridSize grid of nodes of cost 1, 4-connected
makeGrid(gridSize) ==
    [nodes |-> {gridId(c[1], c[2]) : c \in gridCells(gridSize)},
     cost |-> [n \in {gridId(c[1], c[2]) : c \in gridCells(gridSize)} |-> 1],
     neighbors |-> [n \in {gridId(c[1], c[2]) : c \in gridCells(gridSize)} |->
                      LET c == CHOOSE d \in gridCells(gridSize) : gridId(d[1], d[2]) = n
                      IN  populateNeighbors(gridSize, c[1], c[2])]]

\* App's updateCost(i, j, event): the node's cost changes, its edges do not
updateCost(g, i, j, newCost) ==
    [g EXCEPT !.cost = [g.cost EXCEPT ![gridId(i, j)] = newCost]]

\* largest grid built
MaxGrid == 3
\* the costs a cell is edited to
EditCosts == {0, 100}

\* the grids: as built, or with one cell's cost edited
Grids ==
    UNION {{makeGrid(k)} \cup
           {updateCost(makeGrid(k), c[1], c[2], v) : c \in gridCells(k), v \in EditCosts}
           : k \in 1..MaxGrid}

\* nodes of the small directed graphs
NumNodes == 3
\* their costs range over 0..MaxCost
MaxCost == 2

\* the edges of node n towards the nodes of targets, by ascending id
RECURSIVE edgeList(_, _, _)
edgeList(n, targets, c) ==
    IF targets = {} THEN <<>>
    ELSE LET t == CHOOSE x \in targets : \A y \in targets : x <= y
         IN  <<makeEdge(t, n, c)>> \o edgeList(n, targets \ {t}, c)

\* every directed graph without self-loops on 1..NumNodes, its nodes' costs
\* drawn from costs
DigraphsWith(costs) ==
    {[nodes |-> 1..NumNodes,
      cost |-> c,
      neighbors |-> [n \in 1..NumNodes |-> edgeList(n, adj[n], c[n])]]
     : c \in costs,
       adj \in {a \in [1..NumNodes -> SUBSET (1..NumNodes)] :
                    \A n \in 1..NumNodes : n \notin a[n]}}

\* the grids as makeGrid builds them
PlainGrids == {makeGrid(k) : k \in 1..MaxGrid}

\* every assignment of a cost in 0..MaxCost to the nodes
AnyCosts == [1..NumNodes -> 0..MaxCost]

\* every node costs 1
UnitCosts == {[n \in 1..NumNodes |-> 1]}

\* ------------------------------------------ what the graph itself says
Successors(n) == {neighbors[n][k].to_node : k \in 1..Len(neighbors[n])}

\* hops of a shortest route from the set reached after d hops to target;
\* undefined when there is none
RECURSIVE hopsFrom(_, _, _, _)
hopsFrom(seen, layer, d, target) ==
    IF target \in layer THEN d
    ELSE IF layer = {} THEN undefined
    ELSE hopsFrom(seen \cup layer,
                  (UNION {Successors(n) : n \in layer}) \ (seen \cup layer),
                  d + 1, target)

MinHops(from, to) == hopsFrom({}, {from}, 0, to)

Reachable(from, to) == MinHops(from, to) # undefined

Min(S) == CHOOSE x \in S : \A y \in S : x <= y

\* Bellman-Ford over pairs <<node, cost>>: for every node a route of at most
\* k hops from `from` reaches, the least cost of such a route (the cost of a
\* route is the sum of the costs of the nodes entered after `from`)
relaxAll(pairs) ==
    LET cands(n) == {q[2] + cost[n] : q \in {r \in pairs : n \in Successors(r[1])}}
                    \cup {q[2] : q \in {r \in pairs : r[1] = n}}
    IN  {<<n, Min(cands(n))>> : n \in {x \in nodes : cands(x) # {}}}

RECURSIVE leastCosts(_, _)
leastCosts(from, k) ==
    IF k = 0 THEN {<<from, 0>>}
    ELSE CHOOSE d \in {relaxAll(prev) : prev \in {leastCosts(from, k - 1)}} : TRUE

\* the least cost of a route from `from` to `to`; undefined when there is none
MinCost(from, to) ==
    LET reached == {q \in leastCosts(from, Cardinality(nodes)) : q[1] = to}
    IN  IF reached = {} THEN undefined ELSE (CHOOSE q \in reached : TRUE)[2]

\* ----------------------------------------------------------- the searches
\* a return without the reverse: the path as the walk built it, end first
notReversed(s) == s

\* Array.prototype.reverse
RECURSIVE reverse(_)
reverse(s) == IF s = <<>> THEN <<>> ELSE Append(reverse(Tail(s)), Head(s))

\* the length at which a push onto a path array fails (the engine's limit on
\* the length of an array, scaled down); no route of the graphs is as long
MaxPathLen == 10

QueueIdle ==
    /\ heap = <<>>
    /\ added = EmptyBag
    /\ popped = <<>>
    /\ lastOp = NoOp

\* the caller holds a graph and two of its nodes, and has calls to make
SearchStart(graphs, calls) ==
    /\ QueueIdle
    /\ \E g \in graphs :
        /\ nodes = g.nodes
        /\ cost = g.cost
        /\ neighbors = g.neighbors
    /\ startNode \in nodes
    /\ endNode \in nodes
    /\ todo = calls
    /\ pc = "call"
    /\ currNode = undefined
    /\ edgeIdx = 0
    /\ ucsFrontier = <<>>
    /\ ucsCameFrom = [n \in nodes |-> undefinedEntry]
    /\ costToNode = undefined
    /\ ucsCurrent = undefinedEntry
    /\ ucsPath = <<>>
    /\ bfsFrontier = <<>>
    /\ bfsCameFrom = [n \in nodes |-> undefined]
    /\ bfsCurrent = undefined
    /\ bfsPath = <<>>
    /\ ucsResult = <<>>
    /\ bfsResult = <<>>
    /\ ucsPrevious = <<>>
    /\ bfsPrevious = <<>>

\* uniformCostSearch, then breadthFirstSearch, on a grid or a directed graph
SearchInit == SearchStart(Grids \cup DigraphsWith(AnyCosts), <<"ucs", "bfs">>)

\* breadthFirstSearch alone, which reads no cost: on a grid as built or on a
\* directed graph of nodes of cost 1
BfsInit == SearchStart(PlainGrids \cup DigraphsWith(UnitCosts), <<"bfs">>)

\* the forEach moves to the next edge, or the while loop to its next test
NextEdge(loop, each) ==
    IF edgeIdx + 1 < Len(neighbors[currNode])
    THEN /\ pc' = each
         /\ edgeIdx' = edgeIdx + 1
         /\ UNCHANGED currNode
    ELSE /\ pc' = loop
         /\ edgeIdx' = 0
         /\ currNode' = undefined

\* ---- uniformCostSearch
\* lines 217-224: the frontier holds startNode, cameFrom its entry
UcsCall ==
    /\ pc = "call"
    /\ todo # <<>>
    /\ Head(todo) = "ucs"
    /\ todo' = Tail(todo)
    /\ ucsFrontier' = add(<<>>, startNode, 0)
    /\ ucsCameFrom' = [n \in nodes |->
                          IF n = startNode THEN NodeAndCost(startNode, 0) ELSE undefinedEntry]
    /\ pc' = "ucs.while"
    /\ UNCHANGED <<queueVars, graphVars, loopVars, costToNode, ucsCurrent, ucsPath, bfsVars,
                   resultVars>>

\* frontier.pop() || startNode
poppedOrStart(ret) == IF ret = undefined THEN startNode ELSE ret

\* lines 225-227: take the next node of the frontier
UcsPop ==
    /\ pc = "ucs.while"
    /\ size(ucsFrontier) # 0
    /\ LET taken == pop(ucsFrontier)
           node == poppedOrStart(taken.ret)
       IN  /\ ucsFrontier' = taken.heap
           /\ IF Len(neighbors[node]) = 0
              THEN /\ pc' = "ucs.while"
                   /\ UNCHANGED <<currNode, costToNode>>
              ELSE /\ pc' = "ucs.forEach"
                   /\ currNode' = node
                   /\ costToNode' = ucsCameFrom[node].cost
    /\ edgeIdx' = 0
    /\ UNCHANGED <<queueVars, graphVars, todo, ucsCameFrom, ucsCurrent, ucsPath, bfsVars,
                   resultVars>>

\* a test with < for <=: a candidate of the recorded cost is not skipped
skipsOnlyCheaper(previousCost, costWithNeighbor) ==
    previousCost # undefined /\ previousCost < costWithNeighbor

\* a test that skips every node that has an entry, whatever its cost
skipsAnyKnown(previousCost, costWithNeighbor) == previousCost # undefined

\* previousCost <= costWithNeighbor; undefined <= x is false
skipsNeighbor(previousCost, costWithNeighbor) ==
    previousCost # undefined /\ previousCost <= costWithNeighbor

\* the priority uniformCostSearch queues next under: next.cost
priorityOfNext(next, costWithNeighbor) == cost[next]

\* lines 228-237: one call of the forEach callback
UcsVisit ==
    /\ pc = "ucs.forEach"
    /\ LET neighbor == neighbors[currNode][edgeIdx + 1]
           next == neighbor.to_node
           costWithNeighbor == costToNode + cost[next]
           previousCost == ucsCameFrom[next].cost
       IN  IF skipsNeighbor(previousCost, costWithNeighbor)
           THEN UNCHANGED <<ucsFrontier, ucsCameFrom>>
           ELSE /\ ucsFrontier' =
                      add(ucsFrontier, next, priorityOfNext(next, costWithNeighbor))
                /\ ucsCameFrom' =
                      [ucsCameFrom EXCEPT ![next] = NodeAndCost(currNode, costWithNeighbor)]
    /\ NextEdge("ucs.while", "ucs.forEach")
    /\ costToNode' = IF pc' = "ucs.while" THEN undefined ELSE costToNode
    /\ UNCHANGED <<queueVars, graphVars, todo, ucsCurrent, ucsPath, bfsVars, resultVars>>

\* lines 240-241: the frontier is empty, the walk starts at endNode's entry
UcsStartWalk ==
    /\ pc = "ucs.while"
    /\ size(ucsFrontier) = 0
    /\ ucsCurrent' = ucsCameFrom[endNode]
    /\ ucsPath' = <<>>
    /\ pc' = "ucs.walk"
    /\ UNCHANGED <<queueVars, graphVars, todo, loopVars, ucsFrontier, ucsCameFrom, costToNode,
                   bfsVars, resultVars>>

\* a walk that tests only whether the entry is there, not whether it is
\* startNode's
walksWhileEntry(entry) == entry # undefinedEntry

\* current && current.node.id !== startNode.id
ucsWalks(entry) == entry # undefinedEntry /\ entry.node # startNode

\* lines 242-245: one turn of the walk
UcsWalkStep ==
    /\ pc = "ucs.walk"
    /\ ucsWalks(ucsCurrent)
    /\ Len(ucsPath) < MaxPathLen
    /\ ucsPath' = Append(ucsPath, ucsCurrent)
    /\ ucsCurrent' = ucsCameFrom[ucsCurrent.node]
    /\ UNCHANGED <<queueVars, graphVars, todo, pc, loopVars, ucsFrontier, ucsCameFrom, costToNode,
                   bfsVars, resultVars>>

\* lines 246-247: the walk is over, the path is returned and the locals die
UcsReturn ==
    /\ pc = "ucs.walk"
    /\ ~ucsWalks(ucsCurrent)
    /\ ucsResult' = reverse(Append(ucsPath, NodeAndCost(startNode, 0)))
    /\ ucsPrevious' = ucsResult
    /\ pc' = "call"
    /\ ucsFrontier' = <<>>
    /\ ucsCameFrom' = [n \in nodes |-> undefinedEntry]
    /\ ucsCurrent' = undefinedEntry
    /\ ucsPath' = <<>>
    /\ UNCHANGED <<queueVars, graphVars, todo, loopVars, costToNode, bfsVars,
                   bfsResult, bfsPrevious>>

\* ---- breadthFirstSearch
\* a frontier array that outlives the call: startNode is pushed onto what the
\* call before left in it
sharedFrontier(left) == Append(left, startNode)

\* const frontier = [startNode]: a new array, whatever an earlier call left
newFrontier(left) == <<startNode>>

\* lines 181-182: the frontier holds startNode, cameFrom maps it to null
BfsCall ==
    /\ pc = "call"
    /\ todo # <<>>
    /\ Head(todo) = "bfs"
    /\ todo' = Tail(todo)
    /\ bfsFrontier' = newFrontier(bfsFrontier)
    /\ bfsCameFrom' = [n \in nodes |-> IF n = startNode THEN null ELSE undefined]
    /\ pc' = "bfs.while"
    /\ UNCHANGED <<queueVars, graphVars, loopVars, ucsVars, bfsCurrent, bfsPath,
                   resultVars>>

\* lines 199-200: the walk starts at endNode
BfsStartWalk ==
    /\ bfsCurrent' = endNode
    /\ bfsPath' = <<>>
    /\ pc' = "bfs.walk"
    /\ edgeIdx' = 0
    /\ currNode' = undefined

\* lines 183-188: take the head of the frontier; leave the loop at endNode
BfsShift ==
    /\ pc = "bfs.while"
    /\ Len(bfsFrontier) # 0
    /\ bfsFrontier' = Tail(bfsFrontier)
    /\ IF Head(bfsFrontier) = endNode
       THEN BfsStartWalk
       ELSE /\ edgeIdx' = 0
            /\ UNCHANGED <<bfsCurrent, bfsPath>>
            /\ IF Len(neighbors[Head(bfsFrontier)]) = 0
               THEN pc' = "bfs.while" /\ UNCHANGED currNode
               ELSE pc' = "bfs.forEach" /\ currNode' = Head(bfsFrontier)
    /\ UNCHANGED <<queueVars, graphVars, todo, ucsVars, bfsCameFrom, resultVars>>

\* line 183: the frontier is empty
BfsLoopEnds ==
    /\ pc = "bfs.while"
    /\ Len(bfsFrontier) = 0
    /\ BfsStartWalk
    /\ UNCHANGED <<queueVars, graphVars, todo, ucsVars, bfsFrontier, bfsCameFrom,
                   resultVars>>

\* the truth value of a cameFrom entry: null and undefined are falsy, a Node is not
truthy(entry) == entry # null /\ entry # undefined

\* a forEach callback without the test: every edge queues its to_node again
bfsNeverSkips(cf, next) == FALSE

\* if (cameFrom[next.id]) return
bfsSkips(cf, next) == truthy(cf[next])

\* lines 189-196: one call of the forEach callback
BfsVisit ==
    /\ pc = "bfs.forEach"
    /\ LET neighbor == neighbors[currNode][edgeIdx + 1]
           next == neighbor.to_node
       IN  IF bfsSkips(bfsCameFrom, next)
           THEN UNCHANGED <<bfsFrontier, bfsCameFrom>>
           ELSE /\ bfsFrontier' = Append(bfsFrontier, next)
                /\ bfsCameFrom' = [bfsCameFrom EXCEPT ![next] = currNode]
    /\ NextEdge("bfs.while", "bfs.forEach")
    /\ UNCHANGED <<queueVars, graphVars, todo, ucsVars, bfsCurrent, bfsPath, resultVars>>

\* cameFrom[current.id] || endNode
cameFromOrEnd(cf, n) == IF truthy(cf[n]) THEN cf[n] ELSE endNode

\* lines 201-204: one turn of the walk
BfsWalkStep ==
    /\ pc = "bfs.walk"
    /\ bfsCurrent # startNode
    /\ Len(bfsPath) < MaxPathLen
    /\ bfsPath' = Append(bfsPath, bfsCurrent)
    /\ bfsCurrent' = cameFromOrEnd(bfsCameFrom, bfsCurrent)
    /\ UNCHANGED <<queueVars, graphVars, todo, pc, loopVars, ucsVars, bfsFrontier, bfsCameFrom,
                   resultVars>>

\* line 202: path.push fails once the array is at the engine's limit; the
\* call ends with that error and returns nothing
BfsWalkOverflow ==
    /\ pc = "bfs.walk"
    /\ bfsCurrent # startNode
    /\ Len(bfsPath) >= MaxPathLen
    /\ pc' = "thrown"
    /\ bfsFrontier' = <<>>
    /\ bfsCameFrom' = [n \in nodes |-> undefined]
    /\ bfsCurrent' = undefined
    /\ bfsPath' = <<>>
    /\ UNCHANGED <<queueVars, graphVars, todo, loopVars, ucsVars, resultVars>>

\* lines 205-206: the walk is over, the path is returned and the locals die
\* (the frontier array keeps what the break at endNode left in it until it is
\* collected; the next call builds its own)
BfsReturn ==
    /\ pc = "bfs.walk"
    /\ bfsCurrent = startNode
    /\ bfsResult' = reverse(Append(bfsPath, startNode))
    /\ bfsPrevious' = bfsResult
    /\ pc' = "call"
    /\ bfsCameFrom' = [n \in nodes |-> undefined]
    /\ bfsCurrent' = undefined
    /\ bfsPath' = <<>>
    /\ UNCHANGED <<queueVars, graphVars, todo, loopVars, ucsVars, bfsFrontier,
                   ucsResult, ucsPrevious>>

UcsNext ==
    \/ UcsCall
    \/ UcsPop
    \/ UcsVisit
    \/ UcsStartWalk
    \/ UcsWalkStep
    \/ UcsReturn

BfsNext ==
    \/ BfsCall
    \/ BfsShift
    \/ BfsLoopEnds
    \/ BfsVisit
    \/ BfsWalkStep
    \/ BfsWalkOverflow
    \/ BfsReturn

SearchNext == UcsNext \/ BfsNext

SearchSpec == SearchInit /\ [][SearchNext]_vars

BfsSpec == BfsInit /\ [][BfsNext]_vars

\* uniformCostSearch alone, on a grid or a directed graph
UcsInit == SearchStart(Grids \cup DigraphsWith(AnyCosts), <<"ucs">>)

UcsSpec == UcsInit /\ [][UcsNext]_vars

\* uniformCostSearch runs in one call, with no suspension point
FairUcsSpec == UcsSpec /\ WF_vars(UcsNext)

\* each search called twice on the same graph, startNode and endNode
RepeatInit ==
    SearchStart(Grids \cup DigraphsWith(AnyCosts), <<"ucs", "ucs", "bfs", "bfs">>)

RepeatSpec == RepeatInit /\ [][SearchNext]_vars

\* the searches run in one call, with no suspension point: a step that can
\* be taken is taken
FairSearchSpec == SearchSpec /\ WF_vars(SearchNext)

\* the call has returned (a returned path holds startNode at least)
UcsReturned == ucsResult # <<>>

BfsReturned == bfsResult # <<>>

\* ---------------------------------------------- claims on the searches
\* the graph is the gridSize x gridSize grid (whatever its costs)
IsGrid(gridSize) ==
    /\ nodes = makeGrid(gridSize).nodes
    /\ neighbors = makeGrid(gridSize).neighbors

\* every two consecutive nodes of ns are joined by an edge of the first
Joined(ns) == \A i \in 1..(Len(ns) - 1) : ns[i + 1] \in Successors(ns[i])

\* sum of the costs of the nodes of ns entered after the first, up to the k-th
RECURSIVE enteredCost(_, _)
enteredCost(ns, k) == IF k <= 1 THEN 0 ELSE enteredCost(ns, k - 1) + cost[ns[k]]

\* the nodes of a PathWithCost
nodesOf(r) == [i \in 1..Len(r) |-> r[i].node]

\* C4: when endNode is reachable, breadthFirstSearch returns a route of the
\* least possible number of hops; on the k x k grid the route from (0,0) to
\* (k-1,k-1) has 2(k-1)+1 nodes.
C4_BfsMinimumHops ==
    (BfsReturned /\ Reachable(startNode, endNode)) =>
        /\ Joined(bfsResult)
        /\ Len(bfsResult) = MinHops(startNode, endNode) + 1
        /\ \A k \in 1..MaxGrid :
              (IsGrid(k) /\ startNode = gridId(0, 0) /\ endNode = gridId(k - 1, k - 1))
                  => Len(bfsResult) = 2 * (k - 1) + 1

\* breadthFirstSearch has crossed the largest grid from corner to corner
C4_Witness ==
    /\ BfsReturned
    /\ IsGrid(MaxGrid)
    /\ startNode = gridId(0, 0)
    /\ endNode = gridId(MaxGrid - 1, MaxGrid - 1)
    /\ Len(bfsResult) = 2 * (MaxGrid - 1) + 1

\* C5: when endNode is reachable, the path breadthFirstSearch returns starts
\* at startNode, ends at endNode, and each element has an edge to the next.
C5_BfsStartToEnd ==
    (BfsReturned /\ Reachable(startNode, endNode)) =>
        /\ bfsResult[1] = startNode
        /\ bfsResult[Len(bfsResult)] = endNode
        /\ \A i \in 1..(Len(bfsResult) - 1) :
              \E k \in 1..Len(neighbors[bfsResult[i]]) :
                  neighbors[bfsResult[i]][k].to_node = bfsResult[i + 1]

\* breadthFirstSearch has returned a path through at least one other node
C5_Witness ==
    /\ BfsReturned
    /\ Len(bfsResult) >= 3
    /\ startNode # endNode

\* the explicit "no path" result
NoPath == <<>>

\* C6: when endNode is not reachable from startNode, breadthFirstSearch
\* terminates and returns the "no path" result: the call does not end in an
\* error, and bfsResult (NoPath until a call returns) is never anything else.
C6_BfsUnreachableNoPath ==
    ~Reachable(startNode, endNode) => (pc # "thrown" /\ bfsResult = NoPath)

\* the 3x3 grid of cost 1 whose centre costs 100, from (0,0) to (2,2)
WeightedScenario ==
    /\ IsGrid(3)
    /\ cost = updateCost(makeGrid(3), 1, 1, 100).cost
    /\ startNode = gridId(0, 0)
    /\ endNode = gridId(2, 2)

\* C7: when endNode is reachable, uniformCostSearch returns a route from
\* startNode to endNode of least cumulative cost, and its last element
\* carries that cost; in the weighted scenario the route avoids (1,1) and
\* reports cost 4.
C7_UcsMinimumCost ==
    (UcsReturned /\ Reachable(startNode, endNode)) =>
        /\ nodesOf(ucsResult)[1] = startNode
        /\ nodesOf(ucsResult)[Len(ucsResult)] = endNode
        /\ Joined(nodesOf(ucsResult))
        /\ enteredCost(nodesOf(ucsResult), Len(ucsResult)) = MinCost(startNode, endNode)
        /\ ucsResult[Len(ucsResult)].cost = MinCost(startNode, endNode)
        /\ WeightedScenario =>
              /\ \A i \in 1..Len(ucsResult) : ucsResult[i].node # gridId(1, 1)
              /\ ucsResult[Len(ucsResult)].cost = 4

\* C8: when endNode is reachable, the sequence uniformCostSearch returns
\* has startNode as the node of its first element and endNode as the node of
\* its last.
C8_UcsStartToEnd ==
    (UcsReturned /\ Reachable(startNode, endNode)) =>
        /\ ucsResult[1].node = startNode
        /\ ucsResult[Len(ucsResult)].node = endNode

\* C9: every element of the sequence uniformCostSearch returns carries the
\* cumulative cost of reaching its own node: the sum of the costs of the
\* nodes of the elements after the first, up to and including it.
C9_UcsCumulativeCosts ==
    UcsReturned =>
        \A i \in 1..Len(ucsResult) :
            ucsResult[i].cost = enteredCost(nodesOf(ucsResult), i)

\* C10: when every node costs 1 and endNode is reachable, uniformCostSearch
\* returns as many elements as breadthFirstSearch.
C10_UcsSameLengthAsBfs ==
    (/\ BfsReturned
     /\ \A n \in nodes : cost[n] = 1
     /\ Reachable(startNode, endNode))
        => Len(ucsResult) = Len(bfsResult)

\* C11: when endNode is not reachable from startNode, what uniformCostSearch
\* returns can be told from every result of a call with a reachable endNode:
\* in particular it is not the one-element sequence [{startNode, 0}] that
\* the call with endNode = startNode returns.
C11_UcsUnreachableNoPath ==
    (UcsReturned /\ ~Reachable(startNode, endNode)) =>
        ucsResult # <<NodeAndCost(startNode, 0)>>

\* C12: uniformCostSearch terminates: once called, its frontier empties and
\* its walk over cameFrom ends, so that the call returns.
C12_UcsTerminates == <>UcsReturned

\* the call has returned on a graph where two nodes of cost 0, reachable from
\* startNode, have an edge to each other
C12_Witness ==
    /\ UcsReturned
    /\ \E a, b \in nodes :
          /\ a # b /\ cost[a] = 0 /\ cost[b] = 0
          /\ b \in Successors(a) /\ a \in Successors(b)
          /\ a # startNode /\ b # startNode
          /\ Reachable(startNode, a)

\* C13: the searches never write to the graph (the nodes, their costs, their
\* neighbors and the edges' fields stay as they are in every step), and the
\* second of two calls with the same graph, startNode and endNode returns
\* what the first returned.
C13_SearchesArePure ==
    [][ /\ UNCHANGED <<nodes, cost, neighbors>>
        /\ (ucsPrevious' # <<>> => ucsResult' = ucsPrevious')
        /\ (bfsPrevious' # <<>> => bfsResult' = bfsPrevious')
      ]_vars

\* both searches have returned twice, with a path through another node
C13_Witness ==
    /\ ucsPrevious # <<>>
    /\ bfsPrevious # <<>>
    /\ Len(bfsResult) >= 3
    /\ Len(ucsResult) >= 2

\* C14: in breadthFirstSearch first discovery wins for every node, startNode
\* included: no turn of the forEach writes a came-from entry that is already
\* set (null, startNode's initial entry, counts as set), and none pushes onto
\* the frontier a node that was discovered before (a node is discovered when
\* its entry is set: startNode at the call, any other node at its push).
C14_BfsFirstDiscoveryWins ==
    [][ pc = "bfs.forEach" =>
          \A n \in nodes :
              bfsCameFrom[n] # undefined =>
                  /\ bfsCameFrom'[n] = bfsCameFrom[n]
                  /\ ~(/\ Len(bfsFrontier') = Len(bfsFrontier) + 1
                        /\ bfsFrontier'[Len(bfsFrontier')] = n)
      ]_vars

\* C15: in uniformCostSearch a turn of the forEach writes the entry of the
\* edge's to_node, and queues that node, only when the node has no entry yet
\* or the candidate cost (the cost recorded for the popped node plus the
\* to_node's cost) is strictly lower than the recorded one; it touches no
\* other entry; a candidate of the recorded cost changes neither cameFrom
\* nor the frontier; and while the loop runs no recorded cost increases.
C15_UcsWritesOnlyCheaper ==
    [][ /\ pc = "ucs.forEach" =>
              LET next == neighbors[currNode][edgeIdx + 1].to_node
                  candidate == costToNode + cost[next]
                  before == ucsCameFrom[next]
              IN  /\ \A n \in nodes \ {next} : ucsCameFrom'[n] = ucsCameFrom[n]
                  /\ (ucsCameFrom' # ucsCameFrom \/ ucsFrontier' # ucsFrontier) =>
                        (before = undefinedEntry \/ candidate < before.cost)
                  /\ (before # undefinedEntry /\ candidate = before.cost) =>
                        UNCHANGED <<ucsCameFrom, ucsFrontier>>
        /\ pc \in {"ucs.while", "ucs.forEach"} =>
              \A n \in nodes :
                  ucsCameFrom[n] # undefinedEntry =>
                      /\ ucsCameFrom'[n] # undefinedEntry
                      /\ ucsCameFrom'[n].cost <= ucsCameFrom[n].cost
      ]_vars

\* the frontier holds a node twice: it was queued again when a strictly
\* lower cost replaced its entry
C15_Witness ==
    /\ pc = "ucs.forEach"
    /\ \E i, j \in 1..Len(ucsFrontier) :
          i < j /\ ucsFrontier[i].item = ucsFrontier[j].item

\* C16: uniformCostSearch explores lowest cumulative cost first: when a node
\* is popped from the frontier, no node left in the frontier has a strictly
\* smaller recorded cumulative cost (whence the costs of the nodes popped one
\* after the other never decrease).
C16_UcsPopsCheapestFirst ==
    [][ (pc = "ucs.while" /\ size(ucsFrontier) # 0 /\ ucsFrontier' # ucsFrontier) =>
          LET node == poppedOrStart(pop(ucsFrontier).ret)
          IN  \A i \in 1..Len(ucsFrontier') :
                  ucsCameFrom[ucsFrontier'[i].item].cost >= ucsCameFrom[node].cost
      ]_vars

\* uniformCostSearch's while loop has ended and its cameFrom is still alive
UcsLoopEnded == pc = "ucs.walk" \/ (pc = "ucs.while" /\ size(ucsFrontier) = 0)

\* C18: when uniformCostSearch's main loop ends, startNode's entry is still
\* {startNode, 0}, and every other node n reachable from startNode has an
\* entry whose cost is the least cost of a route from startNode to n (the sum
\* of the costs of the nodes entered) and whose node p has an edge to n with
\* cameFrom[n].cost = cameFrom[p].cost + n.cost.
C18_UcsCameFromLeastCosts ==
    UcsLoopEnded =>
        /\ ucsCameFrom[startNode] = NodeAndCost(startNode, 0)
        /\ \A n \in nodes \ {startNode} :
              Reachable(startNode, n) =>
                  /\ ucsCameFrom[n] # undefinedEntry
                  /\ ucsCameFrom[n].cost = MinCost(startNode, n)
                  /\ n \in Successors(ucsCameFrom[n].node)
                  /\ ucsCameFrom[n].cost = ucsCameFrom[ucsCameFrom[n].node].cost + cost[n]

\* the loop has ended on a graph where a node n is two hops from startNode
\* through a and through the cheaper b: its entry comes from b (a, the
\* dearer, is popped first and writes the entry before b replaces it)
C18_Witness ==
    /\ UcsLoopEnded
    /\ \E a, b \in Successors(startNode) \ {startNode} :
          /\ cost[a] > cost[b]
          /\ \E n \in (Successors(a) \cap Successors(b)) \ Successors(startNode) :
                /\ n # startNode
                /\ ucsCameFrom[n] = NodeAndCost(b, cost[b] + cost[n])

====
